---- MODULE Spec2Model ----
(***************************************************************************)
(* Model of join-geojson.mjs: the two HTTP endpoints (/process-zipcodes    *)
(* and /create-boundary), the concurrent per-zipcode file loads, the       *)
(* feature merge, the union fold and the convex-hull boundary.             *)
(*                                                                         *)
(* JavaScript values are records with a "type" field.  A polygon geometry  *)
(* is abstracted to the set of unit cells it covers, so the area of a      *)
(* geometry is its cell set; turf.union is the union of the covered cells  *)
(* and throws on a geometry the clipping kernel rejects (valid = FALSE).   *)
(* Points are integer pairs; turf.convex is Andrew's monotone chain, the   *)
(* hull routine behind turf.convex.                                        *)
(***************************************************************************)
EXTENDS Integers, Sequences, FiniteSets, TLC

VARIABLES pc, req, loads, geojsons, mergedFeatures, outerBoundary,
          points, boundary, responses

vars == <<pc, req, loads, geojsons, mergedFeatures, outerBoundary,
          points, boundary, responses>>

(* Bounds of the model *)
MaxZips == 3
MaxPoints == 4

(***************************************************************************)
(* Values                                                                  *)
(***************************************************************************)
Null == [type |-> "null"]
Nothing == [type |-> "undefined"]

Polygon(cells, valid) == [type |-> "Polygon", cells |-> cells, valid |-> valid]

Feature(properties, geometry) ==
    [type |-> "Feature", properties |-> properties, geometry |-> geometry]

featureCollection(features) == [type |-> "FeatureCollection", features |-> features]

Error(message) == [type |-> "Error", message |-> message]

Returned(value, trace) ==
    [outcome |-> "return", value |-> value, error |-> Nothing, trace |-> trace]

Thrown(error, trace) ==
    [outcome |-> "throw", value |-> Nothing, error |-> error, trace |-> trace]

(***************************************************************************)
(* The directory ./geojson-files: one file kind per zipcode.               *)
(***************************************************************************)
fA == Feature("a", Polygon({1, 2}, TRUE))
fB == Feature("b", Polygon({2, 3}, TRUE))
fC == Feature("c", Polygon({5}, TRUE))
fBad == Feature("bad", Polygon({4}, FALSE))

Zips == {"missing", "corrupt", "empty", "ab", "c", "bad"}

Files ==
    [z \in Zips |->
        CASE z = "missing" -> [exists |-> FALSE, parses |-> FALSE, content |-> Nothing]
          [] z = "corrupt" -> [exists |-> TRUE, parses |-> FALSE, content |-> Nothing]
          [] z = "empty"   -> [exists |-> TRUE, parses |-> TRUE,
                               content |-> featureCollection(<<>>)]
          [] z = "ab"      -> [exists |-> TRUE, parses |-> TRUE,
                               content |-> featureCollection(<<fA, fB>>)]
          [] z = "c"       -> [exists |-> TRUE, parses |-> TRUE,
                               content |-> featureCollection(<<fC>>)]
          [] OTHER         -> [exists |-> TRUE, parses |-> TRUE,
                               content |-> featureCollection(<<fBad>>)]]

(***************************************************************************)
(* mergeGeoJSONFeatures                                                    *)
(***************************************************************************)
Truthy(v) == v # Null /\ v # Nothing

RECURSIVE flatMapFeatures(_)
flatMapFeatures(gs) ==
    IF gs = <<>> THEN <<>>
    ELSE Head(gs).features \o flatMapFeatures(Tail(gs))

(* variant: the entries are concatenated back to front *)
RECURSIVE flatMapFeaturesReversed(_)
flatMapFeaturesReversed(gs) ==
    IF gs = <<>> THEN <<>>
    ELSE flatMapFeaturesReversed(Tail(gs)) \o Head(gs).features

(* variant of mergeGeoJSONFeatures using the reversed concatenation *)
mergeGeoJSONFeaturesReversed(gs) ==
    featureCollection(flatMapFeaturesReversed(SelectSeq(gs, Truthy)))

mergeGeoJSONFeatures(gs) ==
    featureCollection(flatMapFeatures(SelectSeq(gs, Truthy)))

(***************************************************************************)
(* getOuterBoundary                                                        *)
(***************************************************************************)
turfUnion(a, b) ==
    IF a.geometry.valid /\ b.geometry.valid
    THEN Returned(Feature("{}", Polygon(a.geometry.cells \cup b.geometry.cells, TRUE)), <<>>)
    ELSE Thrown(Error("union failed"), <<>>)

(* variant: a failing union hands back the accumulator along with the error *)
RECURSIVE unionLoopPartial(_, _, _, _)
unionLoopPartial(features, i, unionFeature, trace) ==
    IF i > Len(features) THEN Returned(unionFeature, trace)
    ELSE LET u == turfUnion(unionFeature, features[i])
             t == Append(trace, [i |-> i, a |-> unionFeature, b |-> features[i]])
         IN  IF u.outcome = "throw"
             THEN [outcome |-> "throw", value |-> unionFeature, error |-> u.error, trace |-> t]
             ELSE unionLoopPartial(features, i + 1, u.value, t)

RECURSIVE unionLoop(_, _, _, _)
unionLoop(features, i, unionFeature, trace) ==
    IF i > Len(features) THEN Returned(unionFeature, trace)
    ELSE LET u == turfUnion(unionFeature, features[i])
             t == Append(trace, [i |-> i, a |-> unionFeature, b |-> features[i]])
         IN  IF u.outcome = "throw" THEN Thrown(u.error, t)
             ELSE unionLoop(features, i + 1, u.value, t)

(* variant: no length === 0 branch, features[0] of an empty array is undefined *)
getOuterBoundaryNoEmptyCheck(fc) ==
    IF Len(fc.features) = 0 THEN Returned(Nothing, <<>>)
    ELSE unionLoop(fc.features, 2, fc.features[1], <<>>)

(* variant: the loop starts at index 0 and unions the first feature with itself *)
getOuterBoundaryFromFirst(fc) ==
    IF Len(fc.features) = 0 THEN Returned(featureCollection(<<>>), <<>>)
    ELSE unionLoop(fc.features, 1, fc.features[1], <<>>)

(* variant: the loop stops one feature early *)
getOuterBoundarySkipLast(fc) ==
    IF Len(fc.features) = 0 THEN Returned(featureCollection(<<>>), <<>>)
    ELSE unionLoop(SubSeq(fc.features, 1, Len(fc.features) - 1), 2, fc.features[1], <<>>)

getOuterBoundary(fc) ==
    IF Len(fc.features) = 0 THEN Returned(featureCollection(<<>>), <<>>)
    ELSE unionLoop(fc.features, 2, fc.features[1], <<>>)

(***************************************************************************)
(* createBoundaryFromPoints                                                *)
(***************************************************************************)
(* coordinates are drawn from a 3 x 3 grid; BadPoint is an array turf.point rejects *)
Coords == {0, 1, 2}

BadPoint == <<0>>

PointValues == (Coords \X Coords) \cup {BadPoint}

turfPoint(coordinates) ==
    IF Len(coordinates) < 2
    THEN Thrown(Error("coordinates must be at least 2 numbers long"), <<>>)
    ELSE Returned(Feature("{}", [type |-> "Point", coordinates |-> coordinates]), <<>>)

RECURSIVE pointsMap(_, _, _, _)
pointsMap(pts, i, pointFeatures, trace) ==
    IF i > Len(pts) THEN Returned(pointFeatures, trace)
    ELSE LET f == turfPoint(pts[i])
             t == Append(trace, [fn |-> "turf.point", i |-> i])
         IN  IF f.outcome = "throw" THEN Thrown(f.error, t)
             ELSE pointsMap(pts, i + 1, Append(pointFeatures, f.value), t)

compareByX(a, b) == IF a[1] = b[1] THEN a[2] - b[2] ELSE a[1] - b[1]

cross(p1, p2, p3) ==
    (p2[1] - p1[1]) * (p3[2] - p1[2]) - (p2[2] - p1[2]) * (p3[1] - p1[1])

RECURSIVE insertSorted(_, _)
insertSorted(sorted, p) ==
    IF sorted = <<>> THEN <<p>>
    ELSE IF compareByX(p, Head(sorted)) < 0 THEN <<p>> \o sorted
    ELSE <<Head(sorted)>> \o insertSorted(Tail(sorted), p)

RECURSIVE sortByX(_)
sortByX(pts) ==
    IF pts = <<>> THEN <<>>
    ELSE insertSorted(sortByX(Tail(pts)), Head(pts))

Reverse(s) == [k \in 1..Len(s) |-> s[Len(s) + 1 - k]]

Front(s) == SubSeq(s, 1, Len(s) - 1)

RECURSIVE popWhile(_, _)
popWhile(chain, p) ==
    IF Len(chain) >= 2 /\ cross(chain[Len(chain) - 1], chain[Len(chain)], p) <= 0
    THEN popWhile(Front(chain), p)
    ELSE chain

RECURSIVE halfHull(_, _)
halfHull(pts, chain) ==
    IF pts = <<>> THEN chain
    ELSE halfHull(Tail(pts), Append(popWhile(chain, Head(pts)), Head(pts)))

convexHull(pts) ==
    LET sorted == sortByX(pts)
        lower == halfHull(sorted, <<>>)
        upper == halfHull(Reverse(sorted), <<>>)
    IN  Front(lower) \o Front(upper)

turfConvex(fc) ==
    LET coords == [k \in 1..Len(fc.features) |-> fc.features[k].geometry.coordinates]
        hull == IF coords = <<>> THEN <<>> ELSE convexHull(coords)
    IN  IF Len(hull) >= 3
        THEN Feature("{}", [type |-> "Polygon", coordinates |-> <<Append(hull, hull[1])>>])
        ELSE Null

hullOfPoints(pts) ==
    LET m == pointsMap(pts, 1, <<>>, <<>>)
    IN  IF m.outcome = "throw" THEN m
        ELSE Returned(turfConvex(featureCollection(m.value)),
                      Append(m.trace, [fn |-> "turf.convex", i |-> 0]))

(* variant: the length check lets two points through *)
createBoundaryFromPointsFewer(pts) ==
    IF Len(pts) < 2
    THEN Thrown(Error("At least three points are required to create a boundary."), <<>>)
    ELSE hullOfPoints(pts)

(* variant: the first point is not handed to the hull *)
createBoundaryFromPointsDropFirst(pts) ==
    IF Len(pts) < 3
    THEN Thrown(Error("At least three points are required to create a boundary."), <<>>)
    ELSE hullOfPoints(Tail(pts))

createBoundaryFromPoints(pts) ==
    IF Len(pts) < 3
    THEN Thrown(Error("At least three points are required to create a boundary."), <<>>)
    ELSE hullOfPoints(pts)

(***************************************************************************)
(* Requests and responses                                                  *)
(***************************************************************************)
SeqUpTo(S, n) == UNION {[1..k -> S] : k \in 0..n}

NotArray == [isArray |-> FALSE, items |-> <<>>]

Array(items) == [isArray |-> TRUE, items |-> items]

ZipcodeBodies == {NotArray} \cup {Array(s) : s \in SeqUpTo(Zips, MaxZips)}

PointBodies == {NotArray} \cup {Array(s) : s \in SeqUpTo(PointValues, MaxPoints)}

GeoJSONValues == {Null} \cup {Files[z].content : z \in {y \in Zips : Files[y].parses}}

NoRequest == [route |-> "none", body |-> NotArray]

Response(status, body) == [status |-> status, body |-> body]

ErrorBody(message) == [type |-> "error", error |-> message]

InvalidZipcodes == ErrorBody("Invalid input. Expected a non-empty array of zip codes.")

InvalidPoints == ErrorBody("Invalid input. Expected an array of at least three points.")

InternalServerError == ErrorBody("Internal server error")

validZipcodes(body) == body.isArray /\ Len(body.items) # 0

(* variant: the endpoint only checks that points is an array *)
validPointsAnyArray(body) == body.isArray

validPoints(body) == body.isArray /\ Len(body.items) >= 3

Load(zipcode) == [zipcode |-> zipcode, st |-> "access", val |-> Nothing, err |-> "none"]

Settled(load, val, err) == [load EXCEPT !.st = "settled", !.val = val, !.err = err]

Init ==
    /\ pc = "idle"
    /\ req = NoRequest
    /\ loads = <<>>
    /\ geojsons = <<>>
    /\ mergedFeatures = Nothing
    /\ outerBoundary = Nothing
    /\ points = <<>>
    /\ boundary = Nothing
    /\ responses = <<>>

(* app.post('/process-zipcodes'): up to the await of loadGeoJSONFiles *)
ProcessZipcodes ==
    /\ pc = "idle"
    /\ \E body \in ZipcodeBodies :
        /\ req' = [route |-> "/process-zipcodes", body |-> body]
        /\ IF ~validZipcodes(body)
           THEN /\ responses' = Append(responses, Response(400, InvalidZipcodes))
                /\ pc' = "done"
                /\ loads' = loads
           ELSE /\ loads' = [k \in 1..Len(body.items) |-> Load(body.items[k])]
                /\ pc' = "loading"
                /\ responses' = responses
        /\ UNCHANGED <<geojsons, mergedFeatures, outerBoundary, points, boundary>>

(* fs.access(filePath) resolves: readGeoJSON starts *)
AccessResolved(k) ==
    /\ pc = "loading"
    /\ k \in DOMAIN loads
    /\ loads[k].st = "access"
    /\ Files[loads[k].zipcode].exists
    /\ loads' = [loads EXCEPT ![k].st = "read"]
    /\ UNCHANGED <<pc, req, geojsons, mergedFeatures, outerBoundary, points, boundary,
                   responses>>

(* fs.access(filePath) rejects: .catch(() => null) *)
AccessRejected(k) ==
    /\ pc = "loading"
    /\ k \in DOMAIN loads
    /\ loads[k].st = "access"
    /\ loads' = [loads EXCEPT ![k] = Settled(@, Null,
                    IF Files[loads[k].zipcode].exists THEN "EACCES" ELSE "ENOENT")]
    /\ UNCHANGED <<pc, req, geojsons, mergedFeatures, outerBoundary, points, boundary,
                   responses>>

(* readGeoJSON resolves with the parsed content *)
ReadResolved(k) ==
    /\ pc = "loading"
    /\ k \in DOMAIN loads
    /\ loads[k].st = "read"
    /\ Files[loads[k].zipcode].parses
    /\ loads' = [loads EXCEPT ![k] = Settled(@, Files[loads[k].zipcode].content, "none")]
    /\ UNCHANGED <<pc, req, geojsons, mergedFeatures, outerBoundary, points, boundary,
                   responses>>

(* fs.readFile or JSON.parse fails: .catch(() => null) *)
ReadRejected(k) ==
    /\ pc = "loading"
    /\ k \in DOMAIN loads
    /\ loads[k].st = "read"
    /\ loads' = [loads EXCEPT ![k] = Settled(@, Null,
                    IF Files[loads[k].zipcode].parses THEN "EIO" ELSE "SyntaxError")]
    /\ UNCHANGED <<pc, req, geojsons, mergedFeatures, outerBoundary, points, boundary,
                   responses>>

(* variant: the loader drops the null entries instead of keeping their position *)
PromiseAllDropNull ==
    /\ pc = "loading"
    /\ \A k \in DOMAIN loads : loads[k].st = "settled"
    /\ geojsons' = SelectSeq([k \in DOMAIN loads |-> loads[k].val], Truthy)
    /\ pc' = "loaded"
    /\ UNCHANGED <<req, loads, mergedFeatures, outerBoundary, points, boundary, responses>>

(* Promise.all(geojsonPromises) resolves once every load has settled *)
PromiseAll ==
    /\ pc = "loading"
    /\ \A k \in DOMAIN loads : loads[k].st = "settled"
    /\ geojsons' = [k \in DOMAIN loads |-> loads[k].val]
    /\ pc' = "loaded"
    /\ UNCHANGED <<req, loads, mergedFeatures, outerBoundary, points, boundary, responses>>

(* app.post('/process-zipcodes'): after the await, merge, fold and respond *)
ProcessZipcodesResume ==
    /\ pc = "loaded"
    /\ LET merged == mergeGeoJSONFeatures(geojsons)
           outer == getOuterBoundary(merged)
       IN  /\ mergedFeatures' = merged
           /\ outerBoundary' = outer
           /\ responses' = Append(responses,
                  IF outer.outcome = "return" THEN Response(200, outer.value)
                  ELSE Response(500, InternalServerError))
    /\ pc' = "done"
    /\ UNCHANGED <<req, loads, geojsons, points, boundary>>

(* app.post('/create-boundary') *)
CreateBoundary ==
    /\ pc = "idle"
    /\ \E body \in PointBodies :
        /\ req' = [route |-> "/create-boundary", body |-> body]
        /\ IF ~validPoints(body)
           THEN /\ responses' = Append(responses, Response(400, InvalidPoints))
                /\ UNCHANGED <<points, boundary>>
           ELSE LET b == createBoundaryFromPoints(body.items)
                IN  /\ points' = body.items
                    /\ boundary' = b
                    /\ responses' = Append(responses,
                           IF b.outcome = "return" THEN Response(200, b.value)
                           ELSE Response(500, InternalServerError))
        /\ pc' = "done"
        /\ UNCHANGED <<loads, geojsons, mergedFeatures, outerBoundary>>

(* mergeBoundary: mergeGeoJSONFeatures then getOuterBoundary, called directly *)
MergeBoundary ==
    /\ pc = "idle"
    /\ \E gs \in SeqUpTo(GeoJSONValues, MaxZips) :
        /\ req' = [route |-> "mergeBoundary", body |-> Array(gs)]
        /\ geojsons' = gs
        /\ mergedFeatures' = mergeGeoJSONFeatures(gs)
        /\ outerBoundary' = getOuterBoundary(mergeGeoJSONFeatures(gs))
        /\ pc' = "returned"
        /\ UNCHANGED <<loads, points, boundary, responses>>

(* hullBoundary: createBoundaryFromPoints, called directly *)
HullBoundary ==
    /\ pc = "idle"
    /\ \E pts \in SeqUpTo(PointValues, MaxPoints) :
        /\ req' = [route |-> "hullBoundary", body |-> Array(pts)]
        /\ points' = pts
        /\ boundary' = createBoundaryFromPoints(pts)
        /\ pc' = "returned"
        /\ UNCHANGED <<loads, geojsons, mergedFeatures, outerBoundary, responses>>

(* every request is served on fresh values: nothing survives a request *)
NextRequest ==
    /\ pc \in {"done", "returned"}
    /\ pc' = "idle"
    /\ req' = NoRequest
    /\ loads' = <<>>
    /\ geojsons' = <<>>
    /\ mergedFeatures' = Nothing
    /\ outerBoundary' = Nothing
    /\ points' = <<>>
    /\ boundary' = Nothing
    /\ responses' = <<>>

Next ==
    \/ ProcessZipcodes
    \/ \E k \in 1..MaxZips : AccessResolved(k)
    \/ \E k \in 1..MaxZips : AccessRejected(k)
    \/ \E k \in 1..MaxZips : ReadResolved(k)
    \/ \E k \in 1..MaxZips : ReadRejected(k)
    \/ PromiseAll
    \/ ProcessZipcodesResume
    \/ CreateBoundary
    \/ MergeBoundary
    \/ HullBoundary
    \/ NextRequest

Spec == Init /\ [][Next]_vars

(***************************************************************************)
(* Properties                                                              *)
(***************************************************************************)
Range(s) == {s[k] : k \in DOMAIN s}

Area(feature) == feature.geometry.cells

ZipRoute == req.route = "/process-zipcodes"

PointRoute == req.route = "/create-boundary"

(* number of features contributed by the non-null entries before position k *)
RECURSIVE FeaturesBefore(_, _)
FeaturesBefore(gs, k) ==
    IF k <= 1 THEN 0
    ELSE FeaturesBefore(gs, k - 1)
         + (IF gs[k - 1] = Null THEN 0 ELSE Len(gs[k - 1].features))

NetFeatures(gs) == FeaturesBefore(gs, Len(gs) + 1)

(* C1: the merged collection is one FeatureCollection whose features are    *)
(* exactly the features of the non-null entries, entry by entry and, inside *)
(* an entry, in the entry's own order: nothing added, dropped or reordered. *)
C1_MergeIsOrderedConcatenation ==
    mergedFeatures # Nothing =>
        /\ mergedFeatures.type = "FeatureCollection"
        /\ Len(mergedFeatures.features) = NetFeatures(geojsons)
        /\ \A k \in DOMAIN geojsons :
               geojsons[k] # Null =>
                   \A j \in DOMAIN geojsons[k].features :
                       mergedFeatures.features[FeaturesBefore(geojsons, k) + j]
                           = geojsons[k].features[j]

C1_Witness ==
    /\ pc = "done"
    /\ ZipRoute
    /\ Len(geojsons) = 3
    /\ geojsons[1] = Files["ab"].content
    /\ geojsons[2] = Null
    /\ geojsons[3] = Files["c"].content
    /\ mergedFeatures.features = <<fA, fB, fC>>

(* C2: with zero net features (no entries, only null entries, or only      *)
(* entries without features) the merge followed by getOuterBoundary returns *)
(* a FeatureCollection with zero features, makes no union and throws        *)
(* nothing.                                                                 *)
C2_EmptyInputGivesEmptyCollection ==
    (outerBoundary # Nothing /\ NetFeatures(geojsons) = 0) =>
        /\ outerBoundary.outcome = "return"
        /\ outerBoundary.value.type = "FeatureCollection"
        /\ Len(outerBoundary.value.features) = 0
        /\ outerBoundary.trace = <<>>
        /\ (ZipRoute => responses = <<Response(200, outerBoundary.value)>>)

C2_Witness ==
    /\ pc = "done"
    /\ ZipRoute
    /\ geojsons = <<Null, Files["empty"].content>>
    /\ outerBoundary = Returned(featureCollection(<<>>), <<>>)

(* C3 as claimed: with exactly one merged feature no union is made and the *)
(* result equals that feature's geometry.                                   *)
C3_SingleFeatureResultIsItsGeometry ==
    (outerBoundary # Nothing /\ Len(mergedFeatures.features) = 1) =>
        /\ outerBoundary.outcome = "return"
        /\ outerBoundary.trace = <<>>
        /\ outerBoundary.value = mergedFeatures.features[1].geometry

(* C3 as amended: with exactly one merged feature no union is made and the *)
(* result is that feature itself, unchanged: its geometry together with its *)
(* properties.                                                              *)
C3_SingleFeatureReturnedUnchanged ==
    (outerBoundary # Nothing /\ Len(mergedFeatures.features) = 1) =>
        /\ outerBoundary.outcome = "return"
        /\ outerBoundary.trace = <<>>
        /\ outerBoundary.value = mergedFeatures.features[1]
        /\ outerBoundary.value.geometry = mergedFeatures.features[1].geometry

C3_Witness ==
    /\ pc = "done"
    /\ ZipRoute
    /\ outerBoundary # Nothing
    /\ mergedFeatures.features = <<fC>>
    /\ outerBoundary.value = fC
    /\ responses = <<Response(200, fC)>>

(* C4: for M > 1 features the fold starts from features[0] and makes the   *)
(* union steps in increasing index order, step k joining the accumulator    *)
(* with the next feature; a fold that returns has made exactly M-1 unions,  *)
(* has consumed every feature once, and returns the last union unbuffered.  *)
C4_LeftFold ==
    (outerBoundary # Nothing /\ Len(mergedFeatures.features) > 1) =>
        LET fs == mergedFeatures.features
            tr == outerBoundary.trace
        IN  /\ Len(tr) >= 1
            /\ Len(tr) <= Len(fs) - 1
            /\ \A k \in DOMAIN tr :
                   /\ tr[k].i = k + 1
                   /\ tr[k].b = fs[k + 1]
                   /\ tr[k].a = IF k = 1 THEN fs[1]
                                ELSE turfUnion(tr[k - 1].a, tr[k - 1].b).value
            /\ outerBoundary.outcome = "return" =>
                   /\ Len(tr) = Len(fs) - 1
                   /\ outerBoundary.value = turfUnion(tr[Len(tr)].a, tr[Len(tr)].b).value

C4_Witness ==
    /\ pc = "done"
    /\ ZipRoute
    /\ outerBoundary # Nothing
    /\ mergedFeatures.features = <<fC, fA, fB>>
    /\ outerBoundary.outcome = "return"
    /\ Len(outerBoundary.trace) = 2
    /\ Area(outerBoundary.value) = {1, 2, 3, 5}

Permuted(fs, perm) == [k \in DOMAIN fs |-> fs[perm[k]]]

(* C5: the area covered by the result does not depend on the order of the  *)
(* features: folding any permutation of the merged features ends the same   *)
(* way and, when it returns, covers the same area.                          *)
C5_AreaIsOrderIndependent ==
    (outerBoundary # Nothing /\ Len(mergedFeatures.features) >= 1) =>
        \A perm \in Permutations(DOMAIN mergedFeatures.features) :
            LET other == getOuterBoundary(
                             featureCollection(Permuted(mergedFeatures.features, perm)))
            IN  /\ other.outcome = outerBoundary.outcome
                /\ other.outcome = "return" => Area(other.value) = Area(outerBoundary.value)

C5_Witness ==
    /\ pc = "done"
    /\ ZipRoute
    /\ outerBoundary # Nothing
    /\ mergedFeatures.features = <<fA, fB, fC>>
    /\ outerBoundary.outcome = "return"
    /\ Area(getOuterBoundary(featureCollection(<<fC, fB, fA>>)).value) = {1, 2, 3, 5}
    /\ Area(outerBoundary.value) = {1, 2, 3, 5}

(* C6: createBoundaryFromPoints with fewer than 3 points throws the         *)
(* three-points error before any geometric call (no turf.point, no          *)
(* turf.convex); /create-boundary answers the same input with 400 and never *)
(* calls createBoundaryFromPoints.                                          *)
C6_FewerThanThreePointsRejectedFirst ==
    /\ (boundary # Nothing /\ Len(points) < 3) =>
           /\ boundary.outcome = "throw"
           /\ boundary.error
                  = Error("At least three points are required to create a boundary.")
           /\ boundary.value = Nothing
           /\ boundary.trace = <<>>
    /\ (pc = "done" /\ PointRoute /\ Len(req.body.items) < 3) =>
           /\ boundary = Nothing
           /\ responses = <<Response(400, InvalidPoints)>>

C6_Witness ==
    /\ pc = "returned"
    /\ req.route = "hullBoundary"
    /\ points = << <<0, 0>>, <<2, 1>> >>
    /\ boundary.outcome = "throw"

FoldInputs == SeqUpTo({fA, fB, fC, fBad}, 3)

FailedStep(outcome) == Len(outcome.trace)

(* the fold stopped at its first failing union and handed back no value *)
StoppedAtFailure ==
    LET tr == outerBoundary.trace
        n == Len(tr)
    IN  /\ n >= 1
        /\ n <= Len(mergedFeatures.features) - 1
        /\ turfUnion(tr[n].a, tr[n].b).outcome = "throw"
        /\ \A k \in 1..(n - 1) : turfUnion(tr[k].a, tr[k].b).outcome = "return"
        /\ outerBoundary.value = Nothing
        /\ (ZipRoute => responses = <<Response(500, InternalServerError)>>)

HandlerStep ==
    \/ \E k \in DOMAIN loads : AccessResolved(k) \/ AccessRejected(k)
    \/ \E k \in DOMAIN loads : ReadResolved(k) \/ ReadRejected(k)
    \/ PromiseAll
    \/ ProcessZipcodesResume

(* C8: a request gets exactly one response, sent when its handler ends and  *)
(* never before; a running handler can always take a step; 400 for a broken *)
(* precondition with no load and no geometry work, 500 with the error body  *)
(* only when the fold or the hull throws, 200 with the computed value       *)
(* otherwise.                                                               *)
C8_OneResponsePerRequest ==
    /\ Len(responses) <= 1
    /\ (ZipRoute \/ PointRoute) => (Len(responses) = 1 <=> pc = "done")
    /\ pc \in {"loading", "loaded"} => ENABLED HandlerStep
    /\ (pc = "done" /\ ZipRoute) =>
           IF ~req.body.isArray \/ Len(req.body.items) = 0
           THEN /\ responses = <<Response(400, InvalidZipcodes)>>
                /\ loads = <<>>
                /\ mergedFeatures = Nothing
                /\ outerBoundary = Nothing
           ELSE IF outerBoundary.outcome = "throw"
           THEN responses = <<Response(500, InternalServerError)>>
           ELSE responses = <<Response(200, outerBoundary.value)>>
    /\ (pc = "done" /\ PointRoute) =>
           IF ~req.body.isArray \/ Len(req.body.items) < 3
           THEN /\ responses = <<Response(400, InvalidPoints)>>
                /\ boundary = Nothing
           ELSE IF boundary.outcome = "throw"
           THEN responses = <<Response(500, InternalServerError)>>
           ELSE responses = <<Response(200, boundary.value)>>

C8_Witness ==
    /\ pc = "done"
    /\ PointRoute
    /\ req.body.items = << <<0, 0>>, <<2, 0>>, BadPoint >>
    /\ boundary.outcome = "throw"
    /\ responses = <<Response(500, InternalServerError)>>

HullVertices(outcome) ==
    IF outcome.outcome = "return" /\ outcome.value # Null
    THEN Range(outcome.value.geometry.coordinates[1])
    ELSE {}

SwapAt(s, i) ==
    [k \in DOMAIN s |-> IF k = i THEN s[i + 1] ELSE IF k = i + 1 THEN s[i] ELSE s[k]]

StrictlyInside(v, a, b, c) ==
    \/ cross(a, b, v) > 0 /\ cross(b, c, v) > 0 /\ cross(c, a, v) > 0
    \/ cross(a, b, v) < 0 /\ cross(b, c, v) < 0 /\ cross(c, a, v) < 0

SquareCorners(x, y, d) == {<<x, y>>, <<x + d, y>>, <<x + d, y + d>>, <<x, y + d>>}

(* C9: for at least 3 points the hull vertex set is the same after swapping *)
(* two neighbours of the input (hence after any permutation) and after      *)
(* repeating a point already present; every vertex is an input point that   *)
(* is not strictly inside a triangle of input points; the corners of a      *)
(* square, in any order, give exactly those four vertices.                  *)
C9_HullDependsOnPointSetOnly ==
    (boundary # Nothing /\ Len(points) >= 3) =>
        /\ \A i \in 1..(Len(points) - 1) :
               LET other == createBoundaryFromPoints(SwapAt(points, i))
               IN  /\ other.outcome = boundary.outcome
                   /\ HullVertices(other) = HullVertices(boundary)
        /\ \A i \in DOMAIN points :
               LET other == createBoundaryFromPoints(Append(points, points[i]))
               IN  /\ other.outcome = boundary.outcome
                   /\ HullVertices(other) = HullVertices(boundary)
        /\ \A v \in HullVertices(boundary) :
               /\ v \in Range(points)
               /\ \A a, b, c \in Range(points) : ~StrictlyInside(v, a, b, c)
        /\ \A x, y \in Coords : \A d \in 1..2 :
               Range(points) = SquareCorners(x, y, d)
                   => HullVertices(boundary) = Range(points)

C9_Witness ==
    /\ pc = "returned"
    /\ req.route = "hullBoundary"
    /\ points = << <<0, 0>>, <<2, 2>>, <<2, 0>>, <<0, 2>> >>
    /\ HullVertices(boundary) = SquareCorners(0, 0, 2)

(* C10: one load per zipcode is started at once; whatever the order in      *)
(* which the loads settle, Promise.all resolves, to a sequence as long as   *)
(* zipcodes whose position k holds the parsed content of zipcode k's file,  *)
(* or null when the file is missing or its access, read or parse failed.    *)
C10_LoadsResolvePositionally ==
    /\ (ZipRoute /\ pc = "loading") =>
           /\ Len(loads) = Len(req.body.items)
           /\ \A k \in DOMAIN loads : loads[k].zipcode = req.body.items[k]
           /\ (\A k \in DOMAIN loads : loads[k].st = "settled") => ENABLED PromiseAll
    /\ (ZipRoute /\ pc \in {"loaded", "done"} /\ loads # <<>>) =>
           /\ Len(geojsons) = Len(req.body.items)
           /\ \A k \in DOMAIN geojsons :
                  LET file == Files[req.body.items[k]]
                  IN  /\ geojsons[k] \in {Null, file.content}
                      /\ geojsons[k] = Null <=> loads[k].err # "none"
                      /\ (~file.exists \/ ~file.parses) => geojsons[k] = Null

C10_Witness ==
    /\ pc = "loaded"
    /\ req.body.items = <<"missing", "ab", "corrupt">>
    /\ loads[1].err = "ENOENT"
    /\ loads[3].err = "SyntaxError"
    /\ geojsons = <<Null, Files["ab"].content, Null>>

====
